---- MODULE Spec2Model ----
(***************************************************************************)
(* A model of geisten.h, the header-only binary neural network core:       *)
(* bit-word primitives, binarize, forward, backward, update_weights,       *)
(* rprelu and update_rprelu, driven the way test_geisten.c drives them.    *)
(*                                                                         *)
(* A 64-bit word is the set of its set bit positions (a subset of 0..63),  *)
(* so that & is intersection, | is union and ~ is the complement in 0..63. *)
(* A packed array is a function from word index to word; an int vector is  *)
(* a function from 0..n-1 to integers.                                     *)
(***************************************************************************)
EXTENDS Integers, FiniteSets, Sequences, TLC

\* ------------------------------------------------------------------ bounds
\* largest number of 64-bit words of a packed array
MaxWords == 2
\* largest number of weight columns of one backward pass
MaxCols == 4
\* largest magnitude of the scalars handed to rprelu / rprelu_derived
MaxAbs == 3
\* largest length of the delta vector handed to update_rprelu
MaxLen == 2

\* ------------------------------------------------------- program constants
\* BIT_SIZE(unsigned long long)
WordBits == 64
\* width of int (the type of the literal 1 in BIT_TEST) and of unsigned
IntBits == 32
\* number of values of uint8_t (the type of binarize's level parameter)
Uint8Range == 256

VARIABLES
    call,       \* the last call: its name, its arguments and the memory before
    bits,       \* the packed bit array the last call wrote (result / w)
    acc,        \* the int accumulator backward adds to (x)
    params,     \* the activation parameters *beta, *gamma, *zeta
    ret,        \* the value the last call returned
    pass,       \* the backward pass in progress: columns, pending, start
    shiftOver   \* what this build makes of an int shift by >= 32 positions

vars == <<call, bits, acc, params, ret, pass, shiftOver>>

\* ------------------------------------------------------------- C arithmetic
\* a C comparison yields the int 1 or 0
B(p) == IF p THEN 1 ELSE 0

\* C integer division truncates toward zero (b > 0)
CDiv(a, b) == IF a >= 0 THEN a \div b ELSE -((-a) \div b)

\* conversion of an int argument to the uint8_t parameter `level`
ToUint8(v) == v % Uint8Range

\* conversion of an unsigned long long argument to the `unsigned` parameter
\* of popcount_soft: the high 32 bits are dropped
ToUnsigned(x) == x \cap (0 .. IntBits - 1)

AllBits == 0 .. WordBits - 1

Min(S) == CHOOSE a \in S : \A b \in S : a <= b

\* the word whose value is the small non-negative number n (a C literal)
RECURSIVE WordOf(_, _)
WordOf(n, pos) ==
    IF n = 0 THEN {}
    ELSE (IF n % 2 = 1 THEN {pos} ELSE {}) \cup WordOf(n \div 2, pos + 1)

Word(n) == WordOf(n, 0)

\* ------------------------------------------------------ bit-word primitives
\* BIT_ARRAY_LEN as the parameter declarations use it: (n / BIT_SIZE) + 1
ArrayWords(n) == (n \div WordBits) + 1

\* (1 << (pos)) of BIT_TEST, converted to unsigned long long for the &.
\* The literal 1 is an int: for pos < 31 the result has the single bit pos;
\* for pos = 31 it is INT_MIN, whose conversion to 64 bits sign-extends to
\* bits 31..63; for pos >= 32 the shift is undefined and the build either
\* masks the count to 5 bits (x86 scalar shift) or yields 0 (vector and ARM
\* shifts).
RECURSIVE IntShl1(_)
IntShl1(pos) ==
    IF pos < IntBits - 1 THEN {pos}
    ELSE IF pos = IntBits - 1 THEN (IntBits - 1) .. (WordBits - 1)
    ELSE IF shiftOver = "wrap" THEN IntShl1(pos % IntBits)
    ELSE {}

BIT_TEST(var, pos) == (var \cap IntShl1(pos)) # {}

BIT_TEST_ARRAY(arr, pos) == BIT_TEST(arr[pos \div WordBits], pos % WordBits)

BIT2SIGN(b, i) == 2 * B(BIT_TEST_ARRAY(b, i)) - 1

\* a plausible slip: the clearing branch without the complement
BINARIZE_nocompl(b, i, t, v) == IF v > t THEN b \cup {i} ELSE b \cap {i}

\* (_b) = ((_v) > (_t)) ? (_b) | (1LLU << (_i)) : (_b) & ~(1LLU << (_i))
BINARIZE(b, i, t, v) == IF v > t THEN b \cup {i} ELSE b \ {i}

BINARIZE_POS(arr, i, t, v) ==
    [arr EXCEPT ![i \div WordBits] = BINARIZE(@, i % WordBits, t, v)]

\* The for loops below run their iterations in the order of i, each on the
\* state the one before left. The range lo..hi-1 is run as lo..mid-1 followed
\* by mid..hi-1 only to keep the evaluation shallow.
Mid(lo, hi) == (lo + hi) \div 2

\* the value of a singleton set
The(S) == CHOOSE r \in S : TRUE

\* for (; x != 0; x &= x - 1) c++;   x & (x - 1) clears the lowest set bit
RECURSIVE popcount_loop(_)
popcount_loop(x) ==
    IF x = {} THEN 0
    ELSE The({1 + popcount_loop(y) : y \in {x \ {Min(x)}}})

popcount_soft(x) == popcount_loop(ToUnsigned(x))

\* #ifndef __builtin_popcountll is always true (a builtin is not a macro), so
\* the second #define of POPCOUNT is the one in force
POPCOUNT(x) == popcount_soft(x)

\* ---------------------------------------------------------------- binarize
\* for (i = lo; i < hi; i++) BINARIZE_POS(result, i, level, a[i]);
RECURSIVE binarize_loop(_, _, _, _, _)
binarize_loop(lo, hi, a, level, result) ==
    IF lo >= hi THEN result
    ELSE IF hi = lo + 1 THEN BINARIZE_POS(result, lo, level, a[lo])
    ELSE The({binarize_loop(Mid(lo, hi), hi, a, level, r) :
                r \in {binarize_loop(lo, Mid(lo, hi), a, level, r0) :
                         r0 \in {result}}})

\* the int8_t a[i] is compared with the uint8_t level, both promoted to int
binarize(size, a, level, result) ==
    binarize_loop(0, size, a, ToUint8(level), result)

\* ----------------------------------------------------------------- forward
\* a plausible slip: the second count taken over ~x & wb
forward_term_swapped(xi, wbi) ==
    POPCOUNT(xi \cap wbi) - POPCOUNT((AllBits \ xi) \cap wbi)

\* (int)POPCOUNT((x[i] & wb[i])) - (int)POPCOUNT((x[i] & (~wb[i])))
forward_term(xi, wbi) ==
    POPCOUNT(xi \cap wbi) - POPCOUNT(xi \cap (AllBits \ wbi))

\* for (i = lo; i < hi; i++) y += ...;
RECURSIVE forward_loop(_, _, _, _, _)
forward_loop(lo, hi, wb, x, y) ==
    IF lo >= hi THEN y
    ELSE IF hi = lo + 1 THEN y + forward_term(x[lo], wb[lo])
    ELSE The({forward_loop(Mid(lo, hi), hi, wb, x, y1) :
                y1 \in {forward_loop(lo, Mid(lo, hi), wb, x, y0) :
                          y0 \in {y}}})

forward(m, wb, x) == forward_loop(0, m, wb, x, 0)

\* ---------------------------------------------------------------- backward
\* a plausible slip: x[i] = ... instead of x[i] += ...
backward_step_assign(x, i, wb, y) == [x EXCEPT ![i] = BIT2SIGN(wb, i) * y]

\* x[i] += BIT2SIGN(wb, i) * y;
backward_step(x, i, wb, y) == [x EXCEPT ![i] = @ + BIT2SIGN(wb, i) * y]

\* for (i = lo; i < hi; i++) x[i] += BIT2SIGN(wb, i) * y;
RECURSIVE backward_loop(_, _, _, _, _)
backward_loop(lo, hi, wb, y, x) ==
    IF lo >= hi THEN x
    ELSE IF hi = lo + 1 THEN backward_step(x, lo, wb, y)
    ELSE The({backward_loop(Mid(lo, hi), hi, wb, y, x1) :
                x1 \in {backward_loop(lo, Mid(lo, hi), wb, y, x0) :
                          x0 \in {x}}})

backward(m, wb, y, x) == backward_loop(0, m, wb, y, x)

\* ---------------------------------------------------------- update_weights
\* result = BIT2SIGN(w, i) * alpha - x[i] * delta;
\* BINARIZE(w[i / BIT_SIZE(w[0])], i % BIT_SIZE(w[0]), 0, result);
\* s holds w and result: w is read and written in place, so iteration i sees
\* the bits the iterations before it wrote
update_weights_step(s, i, x, delta, alpha) ==
    LET result == BIT2SIGN(s.w, i) * alpha - x[i] * delta
    IN  [w |-> [s.w EXCEPT ![i \div WordBits] =
                   BINARIZE(@, i % WordBits, 0, result)],
         result |-> result]

\* for (i = lo; i < hi; i++) { ... }
RECURSIVE update_weights_loop(_, _, _, _, _, _)
update_weights_loop(lo, hi, x, delta, alpha, s) ==
    IF lo >= hi THEN s
    ELSE IF hi = lo + 1 THEN update_weights_step(s, lo, x, delta, alpha)
    ELSE The({update_weights_loop(Mid(lo, hi), hi, x, delta, alpha, s1) :
                s1 \in {update_weights_loop(lo, Mid(lo, hi), x, delta,
                                            alpha, s0) : s0 \in {s}}})

\* int x[]: returns the column written and the last result
update_weights_i(m, x, delta, alpha, w) ==
    update_weights_loop(0, m, x, delta, alpha, [w |-> w, result |-> 0])

\* int8_t x[]: the same statements, x[i] promoted to int
update_weights_i8(m, x, delta, alpha, w) ==
    update_weights_loop(0, m, x, delta, alpha, [w |-> w, result |-> 0])

\* ------------------------------------------------------------ nonlinearity
\* a plausible slip: the slope applied on the wrong side of the level
rprelu_swapped(x, beta, gamma, zeta) ==
    (x - gamma) * (B(x <= gamma) + B(x > gamma) * beta) + zeta

rprelu(x, beta, gamma, zeta) ==
    (x - gamma) * (B(x > gamma) + B(x <= gamma) * beta) + zeta

rprelu_derived(x, beta, gamma) == B(x > gamma) + B(x <= gamma) * beta

\* ----------------------------------------------------------- update_rprelu
\* a plausible slip: the second factor of the level gradient left out
gamma_term_onesided(d, beta, gamma) == (-B(d <= gamma)) * beta

\* -(delta[i] <= *gamma) * (*beta) * -(delta[i] > *gamma)
gamma_term(d, beta, gamma) == (-B(d <= gamma)) * beta * (-B(d > gamma))

\* the three += of the loop body; s holds delta_beta, delta_gamma, delta_zeta
update_rprelu_step(s, i, delta, beta, gamma) ==
    [delta_beta  |-> s.delta_beta + B(delta[i] <= gamma) * (delta[i] - gamma),
     delta_gamma |-> s.delta_gamma + gamma_term(delta[i], beta, gamma),
     delta_zeta  |-> s.delta_zeta + delta[i]]

\* for (i = lo; i < hi; i++) { ... }
RECURSIVE update_rprelu_loop(_, _, _, _, _, _)
update_rprelu_loop(lo, hi, delta, beta, gamma, s) ==
    IF lo >= hi THEN s
    ELSE IF hi = lo + 1 THEN update_rprelu_step(s, lo, delta, beta, gamma)
    ELSE The({update_rprelu_loop(Mid(lo, hi), hi, delta, beta, gamma, s1) :
                s1 \in {update_rprelu_loop(lo, Mid(lo, hi), delta, beta,
                                           gamma, s0) : s0 \in {s}}})

\* `for (uint32_t i; i < m; i++)` leaves i uninitialized: i0 is the value it
\* happens to hold on entry (any i0 >= m skips the loop). *gamma and *beta
\* are read in the loop and written after it.
update_rprelu(m, delta, rate, beta, gamma, zeta, i0) ==
    LET d == update_rprelu_loop(i0, m, delta, beta, gamma,
                 [delta_beta |-> 0, delta_gamma |-> 0, delta_zeta |-> 0])
    IN  [beta  |-> beta  - CDiv(rate * d.delta_beta,  m),
         gamma |-> gamma - CDiv(rate * d.delta_gamma, m),
         zeta  |-> zeta  - CDiv(rate * d.delta_zeta,  m)]

\* ------------------------------------------------------------------ inputs
\* logical lengths around the int width and the word width
ProbeSizes == {1, 5, 32, 33, 64, 65, 70, 128, 130}

Sizes == {n \in ProbeSizes : ArrayWords(n) <= MaxWords}

\* the input counts of the backward passes
PassSizes == Sizes \cap {5, 33, 65, 130}

\* index sets around the int width and the word width, cut to length n
HotSets(n) ==
    {h \cap (0 .. n - 1) : h \in {{}, {0}, {31}, {32}, {63, 64}}}

\* the vector of length n holding v at the indices of hot and d elsewhere
Vec(n, hot, v, d) == [i \in 0 .. n - 1 |-> IF i \in hot THEN v ELSE d]

\* the array literal s as a C array (index from 0)
ArrayOf(s) == [i \in 0 .. Len(s) - 1 |-> s[i + 1]]

\* the packed array of nw words: w0 in word 0 and hi in every other word
PackedFill(nw, w0, hi) == [k \in 0 .. nw - 1 |-> IF k = 0 THEN w0 ELSE hi]

\* test_forward: input[]
TestInput == ArrayOf(<<5, -2, 0, 3, -1>>)

\* test_binarization_det: weights[]
TestWeights == [i \in 0 .. 63 |->
    IF i < 6 THEN <<-5, 127, -128, 0, -1, 1>>[i + 1] ELSE 0]

\* test_update_weights: x[]
TestX == ArrayOf(<<13, 9, 127, 6, 3>>)

Int8Probe == {-128, -1, 0, 2, 127}

Int8Pairs == {<<1, 1>>, <<1, 0>>, <<127, -128>>, <<-1, -128>>}

Int8Vecs(n) ==
    {Vec(n, h, p[1], p[2]) : h \in HotSets(n), p \in Int8Pairs}
    \cup (IF n = 5 THEN {TestInput} ELSE {})
    \cup (IF n = 64 THEN {TestWeights} ELSE {})

XWords == {Word(0), Word(9), {3, 32, 63}, AllBits}

WWords == {Word(19), Word(28), Word(31), Word(29), {32}, AllBits}

\* the words a weight column starts from
W0Words == {Word(0), Word(9), {31}, {32}, AllBits}

HiWords == {{}, AllBits}

\* input, delta and learning rate of an update_weights call
UpdInputs(m) ==
    {[x |-> Vec(m, h, p[1], p[2]), delta |-> d, alpha |-> al] :
        h \in HotSets(m), p \in {<<1, 0>>, <<-1, 1>>},
        d \in {-1, 0, 1}, al \in {0, 1, 2}}
    \cup (IF m = 5 THEN {[x |-> TestX, delta |-> 20, alpha |-> 103]} ELSE {})

\* the weight columns and output errors a backward pass draws from; the
\* first four are test_backward's wb[][] and output[]
ColTable ==
    << [w0 |-> Word(19), hi |-> {},      y |-> 1],
       [w0 |-> Word(28), hi |-> {},      y |-> 0],
       [w0 |-> Word(31), hi |-> {},      y |-> -2],
       [w0 |-> Word(29), hi |-> {},      y |-> 2],
       [w0 |-> {0, 32},  hi |-> {0},     y |-> 1],
       [w0 |-> {31, 63}, hi |-> AllBits, y |-> -1] >>

ColIds == 1 .. Len(ColTable)

Column(m, j) == PackedFill(ArrayWords(m), ColTable[j].w0, ColTable[j].hi)

Scalars == (-MaxAbs) .. MaxAbs

NoCall == [op |-> "none"]

NoPass == [active |-> FALSE, m |-> 0, cols |-> {}, pending |-> {},
           acc0 |-> << >>]

NoParams == [beta |-> 0, gamma |-> 0, zeta |-> 0]

Idle == call.op = "none"

\* ------------------------------------------------------------------- state
Init ==
    /\ call = NoCall
    /\ bits = << >>
    /\ acc = << >>
    /\ params = NoParams
    /\ ret = 0
    /\ pass = NoPass
    /\ shiftOver \in {"wrap", "zero"}

\* binarize(size, a, level, result)
Binarize ==
    /\ Idle
    /\ \E n \in Sizes :
       \E a \in Int8Vecs(n), t \in Int8Probe, fill \in HiWords :
          LET r0 == PackedFill(ArrayWords(n), fill, fill)
          IN  /\ call' = [op |-> "binarize", size |-> n, a |-> a,
                          level |-> t, before |-> r0]
              /\ bits' = binarize(n, a, t, r0)
    /\ UNCHANGED <<acc, params, ret, pass, shiftOver>>

\* POPCOUNT(_x) on an unsigned long long, as forward calls it
Popcount ==
    /\ Idle
    /\ \E w \in XWords \cup WWords :
          /\ call' = [op |-> "popcount", x |-> w]
          /\ ret' = POPCOUNT(w)
    /\ UNCHANGED <<bits, acc, params, pass, shiftOver>>

\* forward(m, wb, x)
Forward ==
    /\ Idle
    /\ \E m \in 1 .. MaxWords :
       \E wb \in [0 .. m - 1 -> WWords \cup {Word(0)}],
          x \in [0 .. m - 1 -> XWords] :
          /\ call' = [op |-> "forward", m |-> m, wb |-> wb, x |-> x]
          /\ ret' = forward(m, wb, x)
    /\ UNCHANGED <<bits, acc, params, pass, shiftOver>>

\* the caller's loop over the columns starts: the accumulator is set up
BeginPass ==
    /\ Idle
    /\ \E m \in PassSizes, cols \in SUBSET ColIds, a0 \in {0, 5} :
          /\ cols # {}
          /\ Cardinality(cols) <= MaxCols
          /\ pass' = [active |-> TRUE, m |-> m, cols |-> cols,
                      pending |-> cols, acc0 |-> Vec(m, {0}, a0, 0)]
          /\ acc' = Vec(m, {0}, a0, 0)
          /\ call' = [op |-> "begin_pass"]
    /\ UNCHANGED <<bits, params, ret, shiftOver>>

\* backward(m, wb[j], output[j], x) for a column not yet propagated
Backward ==
    /\ pass.active
    /\ \E j \in pass.pending :
          /\ call' = [op |-> "backward", m |-> pass.m, j |-> j,
                      wb |-> Column(pass.m, j), y |-> ColTable[j].y,
                      before |-> acc]
          /\ acc' = backward(pass.m, Column(pass.m, j), ColTable[j].y, acc)
          /\ pass' = [pass EXCEPT !.pending = @ \ {j}]
    /\ UNCHANGED <<bits, params, ret, shiftOver>>

\* update_weights(m, x, delta, alpha, w) with int x[]
UpdateWeightsI ==
    /\ Idle
    /\ \E m \in Sizes :
       \E inp \in UpdInputs(m), w0 \in W0Words, hi \in HiWords :
          LET wBefore == PackedFill(ArrayWords(m), w0, hi)
              r == update_weights_i(m, inp.x, inp.delta, inp.alpha, wBefore)
          IN  /\ call' = [op |-> "update_weights_i", m |-> m, x |-> inp.x,
                          delta |-> inp.delta, alpha |-> inp.alpha,
                          before |-> wBefore]
              /\ bits' = r.w
              /\ ret' = r.result
    /\ UNCHANGED <<acc, params, pass, shiftOver>>

\* update_weights(m, x, delta, alpha, w) with int8_t x[]
UpdateWeightsI8 ==
    /\ Idle
    /\ \E m \in Sizes :
       \E inp \in UpdInputs(m), w0 \in W0Words, hi \in HiWords :
          LET wBefore == PackedFill(ArrayWords(m), w0, hi)
              r == update_weights_i8(m, inp.x, inp.delta, inp.alpha, wBefore)
          IN  /\ call' = [op |-> "update_weights_i8", m |-> m, x |-> inp.x,
                          delta |-> inp.delta, alpha |-> inp.alpha,
                          before |-> wBefore]
              /\ bits' = r.w
              /\ ret' = r.result
    /\ UNCHANGED <<acc, params, pass, shiftOver>>

\* rprelu(x, beta, gamma, zeta)
Rprelu ==
    /\ Idle
    /\ \E x \in Scalars, beta \in Scalars, gamma \in Scalars,
          zeta \in Scalars :
          /\ call' = [op |-> "rprelu", x |-> x, beta |-> beta,
                      gamma |-> gamma, zeta |-> zeta]
          /\ ret' = rprelu(x, beta, gamma, zeta)
    /\ UNCHANGED <<bits, acc, params, pass, shiftOver>>

\* rprelu_derived(x, beta, gamma)
RpreluDerived ==
    /\ Idle
    /\ \E x \in Scalars, beta \in Scalars, gamma \in Scalars :
          /\ call' = [op |-> "rprelu_derived", x |-> x, beta |-> beta,
                      gamma |-> gamma]
          /\ ret' = rprelu_derived(x, beta, gamma)
    /\ UNCHANGED <<bits, acc, params, pass, shiftOver>>

\* update_rprelu(m, delta, rate, &beta, &gamma, &zeta)
UpdateRprelu ==
    /\ Idle
    /\ \E m \in 1 .. MaxLen :
       \E delta \in [0 .. m - 1 -> {-2, 0, 3}], rate \in {0, 1, 2},
          beta \in {-1, 0, 2}, gamma \in {-1, 0, 2}, zeta \in {0, 3},
          i0 \in 0 .. m :
          /\ call' = [op |-> "update_rprelu", m |-> m, delta |-> delta,
                      rate |-> rate, beta |-> beta, gamma |-> gamma,
                      zeta |-> zeta, i0 |-> i0]
          /\ params' = update_rprelu(m, delta, rate, beta, gamma, zeta, i0)
    /\ UNCHANGED <<bits, acc, ret, pass, shiftOver>>

\* the caller moves on to its next test with fresh objects
Reset ==
    /\ ~Idle
    /\ call' = NoCall
    /\ bits' = << >>
    /\ acc' = << >>
    /\ params' = NoParams
    /\ ret' = 0
    /\ pass' = NoPass
    /\ UNCHANGED shiftOver

Next ==
    \/ Binarize
    \/ Popcount
    \/ Forward
    \/ BeginPass
    \/ Backward
    \/ UpdateWeightsI
    \/ UpdateWeightsI8
    \/ Rprelu
    \/ RpreluDerived
    \/ UpdateRprelu
    \/ Reset

Spec == Init /\ [][Next]_vars

\* ------------------------------------------------------------------ claims
\* bit i of the logical vector stored in the packed array arr
Bit(arr, i) == (i % WordBits) \in arr[i \div WordBits]

\* f[0] + ... + f[n - 1]
RECURSIVE SumTo(_, _)
SumTo(f, n) == IF n = 0 THEN 0 ELSE f[n - 1] + SumTo(f, n - 1)

IsUpdateWeights == call.op \in {"update_weights_i", "update_weights_i8"}

WritesPacked == call.op = "binarize" \/ IsUpdateWeights

\* the logical length of the packed vector the last call wrote
WrittenLen == IF call.op = "binarize" THEN call.size ELSE call.m

\* C1: forward returns, summed over all words k, the number of set bits of
\* the whole 64-bit word x[k] & wb[k] minus that of x[k] & ~wb[k].
C1_ForwardCountsWholeWords ==
    call.op = "forward" =>
        ret = SumTo([k \in 0 .. call.m - 1 |->
                        Cardinality(call.x[k] \cap call.wb[k])
                        - Cardinality(call.x[k] \ call.wb[k])], call.m)

\* C2: forward equals the signed dot product of x and w read as +/-1
\* vectors: every bit position contributes +1 when the two bits agree and
\* -1 when they disagree.
C2_ForwardIsSignedDotProduct ==
    call.op = "forward" =>
        ret = SumTo([k \in 0 .. call.m - 1 |->
                  Cardinality({i \in AllBits :
                      (i \in call.x[k]) = (i \in call.wb[k])})
                  - Cardinality({i \in AllBits :
                      (i \in call.x[k]) # (i \in call.wb[k])})], call.m)

\* C2 as amended: x is a 0/1 gate and w a +/-1 vector; a position whose x bit
\* is set contributes +1 when its w bit is 1 and -1 when it is 0, a position
\* whose x bit is clear contributes nothing, and only the positions 0..31 of
\* each word are counted.
C2_ForwardIsGatedSignSum ==
    call.op = "forward" =>
        ret = SumTo([k \in 0 .. call.m - 1 |->
                  Cardinality({i \in 0 .. IntBits - 1 :
                      i \in call.x[k] /\ i \in call.wb[k]})
                  - Cardinality({i \in 0 .. IntBits - 1 :
                      i \in call.x[k] /\ i \notin call.wb[k]})], call.m)

\* forward ran over two words, one with clear bits and set bits on both
\* sides of position 32, and returned a non-zero sum
C2_Witness ==
    /\ call.op = "forward"
    /\ call.m = 2
    /\ call.x[0] = {3, 32, 63}
    /\ call.wb[0] = Word(19)
    /\ call.x[1] = AllBits
    /\ ret # 0

\* C3: after binarize(n, x, t, result), bit i of result is 1 exactly when
\* x[i] > t, for every i < n and every int8 threshold t.
C3_BinarizeThreshold ==
    call.op = "binarize" =>
        \A i \in 0 .. call.size - 1 :
            Bit(bits, i) <=> (call.a[i] > call.level)

\* C4: after update_weights(m, input, delta, alpha, w), bit i of w is 1
\* exactly when sign_i * alpha - input[i] * delta > 0, sign_i being +1 if bit
\* i of w was 1 before the call and -1 if it was 0, for every i < m.
C4_UpdateWeightsRule ==
    IsUpdateWeights =>
        \A i \in 0 .. call.m - 1 :
            Bit(bits, i) <=>
                ((IF Bit(call.before, i) THEN 1 ELSE -1) * call.alpha
                    - call.x[i] * call.delta > 0)

\* C5: after backward(m, wb, y, x), x[i] is its previous value plus y if bit
\* i of wb is 1 and minus y if it is 0, for every i < m.
C5_BackwardSigns ==
    call.op = "backward" =>
        \A i \in 0 .. call.m - 1 :
            acc[i] = call.before[i]
                     + (IF Bit(call.wb, i) THEN call.y ELSE -call.y)

\* what column j adds when backward is applied to it alone on a zero
\* accumulator
Solo(m, j) ==
    backward(m, Column(m, j), ColTable[j].y, [i \in 0 .. m - 1 |-> 0])

\* base plus the elementwise sum of Solo(m, j) over the columns j of S
RECURSIVE PlusSolos(_, _, _)
PlusSolos(m, S, base) ==
    IF S = {} THEN base
    ELSE The({PlusSolos(m, S \ {j}, [i \in 0 .. m - 1 |-> base[i] + solo[i]]) :
                j \in {Min(S)}, solo \in {Solo(m, Min(S))}})

\* C6: whatever the order in which backward was invoked for the columns
\* propagated so far, the accumulator is the initial one plus the
\* elementwise sum of what each of those columns contributes alone.
C6_BackwardAdditive ==
    pass.active =>
        acc = PlusSolos(pass.m, pass.cols \ pass.pending, pass.acc0)

\* a pass over at least two columns with non-zero errors and more than 64
\* inputs is complete and has changed a non-zero accumulator
C6_Witness ==
    /\ pass.active
    /\ pass.pending = {}
    /\ {3, 5} \subseteq pass.cols
    /\ pass.m > WordBits
    /\ pass.acc0[0] # 0
    /\ acc # pass.acc0

\* C7: POPCOUNT returns the number of set bits of the 64-bit word.
C7_PopcountWholeWord ==
    call.op = "popcount" => ret = Cardinality(call.x)

\* C8: binarize and update_weights change no bit at a logical index >= n,
\* neither in the last word nor in a word past it.
C8_WritesBelowLength ==
    WritesPacked =>
        /\ DOMAIN bits = DOMAIN call.before
        /\ \A k \in DOMAIN bits : \A p \in AllBits :
              k * WordBits + p >= WrittenLen =>
                  (p \in bits[k] <=> p \in call.before[k])

\* update_weights_i cleared bits below n = 33 of an all-ones column and
\* left the bits from 33 on set
C8_Witness ==
    /\ call.op = "update_weights_i"
    /\ call.m = 33
    /\ call.before[0] = AllBits
    /\ 0 \notin bits[0]
    /\ 33 \in bits[0]

\* C9: rprelu returns (x - gamma) * beta + zeta when x <= gamma and
\* (x - gamma) + zeta when x > gamma; rprelu_derived returns beta when
\* x <= gamma and 1 when x > gamma; neither changes any object.
C9_Rprelu ==
    /\ call.op = "rprelu" =>
          ret = IF call.x <= call.gamma
                THEN (call.x - call.gamma) * call.beta + call.zeta
                ELSE (call.x - call.gamma) + call.zeta
    /\ call.op = "rprelu_derived" =>
          ret = IF call.x <= call.gamma THEN call.beta ELSE 1
    /\ call.op \in {"rprelu", "rprelu_derived"} =>
          /\ bits = << >>
          /\ acc = << >>
          /\ params = NoParams

\* test_rprelu's first case: rprelu(0, 1, 2, 3) returned 1
C9_Witness ==
    /\ call.op = "rprelu"
    /\ call.x = 0 /\ call.beta = 1 /\ call.gamma = 2 /\ call.zeta = 3
    /\ ret = 1

\* C10: update_rprelu leaves *gamma as it was.
C10_GammaUnchanged ==
    call.op = "update_rprelu" => params.gamma = call.gamma

\* update_rprelu ran its loop from 0 over elements on both sides of the
\* level with a non-zero slope and rate, and changed the slope
C10_Witness ==
    /\ call.op = "update_rprelu"
    /\ call.i0 = 0
    /\ call.m = 2
    /\ call.rate # 0
    /\ call.beta # 0
    /\ \E i \in 0 .. 1 : call.delta[i] <= call.gamma
    /\ \E i \in 0 .. 1 : call.delta[i] > call.gamma
    /\ params.beta # call.beta

====
